---- MODULE Spec2Model ----
(***************************************************************************)
(* Model of src/src/templar/autoupdate.py: the AutoUpdate daemon thread.   *)
(* One action per method of the class; the outcomes of git, of the         *)
(* subprocesses and of the operating system are inputs drawn with \E.      *)
(***************************************************************************)
EXTENDS Integers, Sequences, FiniteSets, TLC

\* ---------------------------------------------------------------- bounds
\* version components range over 0..MaxVer
MaxVer == 1
\* files of the working copy that local commits may have touched
MaxFiles == 2

\* ------------------------------------------------------------- constants
TARGET_BRANCH == "main"

Branches == {TARGET_BRANCH, "dev"}
Files == 1..MaxFiles
\* process_name=None, or a name given by the caller
NoName == "None"
ProcessNames == {NoName, "miner"}

\* ------------------------------------------------------- version strings
\* A version string is a release tuple ("1.0.2" is <<1,0,2>>), the empty
\* string, a string packaging cannot parse, or Python's None.
Ver(r) == [kind |-> "ver", rel |-> r]
Empty == [kind |-> "empty", rel |-> <<>>]
Junk == [kind |-> "junk", rel |-> <<>>]
None == [kind |-> "none", rel |-> <<>>]
Triples == {<<a, b, c>> : a \in 0..MaxVer, b \in 0..MaxVer, c \in 0..MaxVer}
ValidVers == {Ver(t) : t \in Triples}

\* One line of src/templar/__init__.py on the remote branch: the name it
\* starts with, whether it holds an "=", how the value is quoted, the value.
Line(n, e, q, v) == [name |-> n, eq |-> e, quote |-> q, val |-> v]
OtherLine == Line("other", TRUE, "double", Junk)
VersionLines ==
    {Line("__version__", TRUE, "double", v) : v \in ValidVers \cup {Empty, Junk}}
        \cup {Line("__version__", FALSE, "double", Empty),
              Line("__version__", TRUE, "single", Ver(<<MaxVer, 0, 0>>))}
Manifests == {<<>>, <<OtherLine>>} \cup {<<OtherLine, l>> : l \in VersionLines}

\* line.split("=")[1].strip().strip(' "'): spaces and double quotes are
\* stripped; single quotes stay in the string, which then is no version.
StripQuotes(l) == IF l.quote = "double" THEN l.val ELSE Junk

\* for line in lines: if line.startswith("__version__"): return ...
\* No "=" on the line: IndexError, caught, None. No such line: the loop
\* ends and the function returns None.
RECURSIVE ScanLines(_)
ScanLines(lines) ==
    IF lines = <<>> THEN None
    ELSE IF Head(lines).name = "__version__"
         THEN IF Head(lines).eq THEN StripQuotes(Head(lines)) ELSE None
         ELSE ScanLines(Tail(lines))

\* packaging.version: the comparison key of a release drops trailing zeros,
\* and keys compare as Python tuples.
RECURSIVE StripTrailingZeros(_)
StripTrailingZeros(r) ==
    IF r = <<>> THEN r
    ELSE IF r[Len(r)] = 0 THEN StripTrailingZeros(SubSeq(r, 1, Len(r) - 1))
         ELSE r

RECURSIVE TupleLess(_, _)
TupleLess(a, b) ==
    IF a = <<>> THEN b # <<>>
    ELSE IF b = <<>> THEN FALSE
    ELSE IF a[1] < b[1] THEN TRUE
    ELSE IF a[1] > b[1] THEN FALSE
    ELSE TupleLess(Tail(a), Tail(b))

\* VersionGreater with a fault: ">=" for ">"
VersionGreaterOrEqual(r, l) ==
    ~TupleLess(StripTrailingZeros(r.rel), StripTrailingZeros(l.rel))

\* remote_version_obj > local_version_obj
VersionGreater(r, l) ==
    TupleLess(StripTrailingZeros(l.rel), StripTrailingZeros(r.rel))

\* ----------------------------------------------------------------- state
VARIABLES
    pc,           \* the call the updater thread makes next
    thread,       \* "alive" | "dead": the updater thread
    proc,         \* "running" | "exited" | "replaced": the host process
    exitStatus,   \* "none" | "0": the status the process exited with
    processName,  \* self.process_name
    repoOpen,     \* whether git.Repo(...) succeeded in __init__
    repo,         \* the local working copy
    remote,       \* the manifest on origin's target branch
    loadedVer,    \* __version__ as imported when the process started
    applied,      \* history: attempt_update has returned True in this process
    cycle,        \* what the calls of the current cycle returned
    trace         \* the operations of the current cycle, in order

vars == <<pc, thread, proc, exitStatus, processName, repoOpen, repo,
          remote, loadedVer, applied, cycle, trace>>

\* an operation of the cycle: what was called, on what, and how it ended
EvR(op, arg, res) == [op |-> op, arg |-> arg, res |-> res]
Ev(op, arg) == EvR(op, arg, "")
\* an exception that leaves try_update
Raise(type) == Ev("raise", type)
NewCycle == [check |-> "none", local |-> None, remote |-> None,
             update |-> "none", resolve |-> "none"]

Has(op) == \E i \in 1..Len(trace) : trace[i].op = op
Count(op) == Cardinality({i \in 1..Len(trace) : trace[i].op = op})
Pos(op) == CHOOSE i \in 1..Len(trace) : trace[i].op = op

Running == proc = "running" /\ thread = "alive"

\* __init__: the thread is a daemon; git.Repo() may fail, which is logged
\* and leaves the object without a repo attribute.
Init ==
    /\ pc = "check"
    /\ thread = "alive"
    /\ proc = "running"
    /\ exitStatus = "none"
    /\ processName \in ProcessNames
    /\ repoOpen \in BOOLEAN
    /\ \E t \in Triples, d \in BOOLEAN, lc \in SUBSET Files, b \in Branches :
          /\ (~repoOpen) => (~d /\ lc = {} /\ b = TARGET_BRANCH)
          /\ repo = [ver |-> Ver(t), head |-> "base", dirty |-> d, op |-> "none",
                     conflicted |-> {}, theirs |-> {}, localChanges |-> lc,
                     branch |-> b, detached |-> FALSE]
          /\ loadedVer = Ver(t)
    /\ remote \in Manifests
    /\ applied = FALSE
    /\ cycle = NewCycle
    /\ trace = <<>>

\* ------------------------------------------------------------------- run
\* RunCatches with a fault: no handler, the exception ends the thread
RunCatchesMissing(ev) ==
    /\ pc' = "done"
    /\ thread' = "dead"
    /\ trace' = trace \o ev
    /\ UNCHANGED <<proc, exitStatus>>

\* except Exception as e: logger.exception(...); then time.sleep(...)
RunCatches(ev) ==
    /\ pc' = "sleep"
    /\ trace' = trace \o ev \o <<Ev("caught", "")>>
    /\ UNCHANGED <<thread, proc, exitStatus>>

\* RunReturns with a fault: the loop goes round without the sleep
RunReturnsNoSleep(ev) ==
    /\ pc' = "check"
    /\ trace' = trace \o ev
    /\ UNCHANGED <<thread, proc, exitStatus>>

\* try_update returned: run falls through to time.sleep(...)
RunReturns(ev) ==
    /\ pc' = "sleep"
    /\ trace' = trace \o ev
    /\ UNCHANGED <<thread, proc, exitStatus>>

\* sys.exit(1) raises SystemExit, which is not an Exception: run's handler
\* does not catch it and the loop ends. AutoUpdate is a threading.Thread, so
\* the SystemExit ends the updater thread only; the interpreter ignores it
\* and the host process keeps running.
SysExit(ev) ==
    /\ pc' = "done"
    /\ thread' = "dead"
    /\ trace' = trace \o ev \o <<Ev("sys_exit", "1")>>
    /\ UNCHANGED <<proc, exitStatus>>

\* time.sleep(self.interval_hours * 3600), then the next pass of while True
Sleep ==
    /\ Running /\ pc = "sleep"
    /\ pc' = "check"
    /\ cycle' = NewCycle
    /\ trace' = <<>>
    /\ UNCHANGED <<thread, proc, exitStatus, processName, repoOpen,
                   repo, remote, loadedVer, applied>>

\* ------------------------------------------------- check_version_updated
\* GetRemoteVersion with a fault: a failed fetch is ignored and the branch
\* is read as it is known locally
GetRemoteVersionStale(fetchOk) ==
    IF ~repoOpen THEN None ELSE ScanLines(remote)

\* GetRemoteVersion with a fault: the missing repo attribute goes unnoticed
GetRemoteVersionNoRepoGuard(fetchOk) ==
    IF ~fetchOk THEN None ELSE ScanLines(remote)

\* self.repo (AttributeError when __init__ could not open it), the fetch and
\* the read of the blob are inside try / except Exception: return None
GetRemoteVersion(fetchOk) ==
    IF ~repoOpen \/ ~fetchOk THEN None ELSE ScanLines(remote)

CheckVersionUpdated ==
    /\ Running /\ pc = "check"
    /\ \E fetchOk \in BOOLEAN, reloadOk \in BOOLEAN, legacy \in BOOLEAN :
        LET rv == GetRemoteVersion(fetchOk)
            lv == IF reloadOk THEN repo.ver ELSE loadedVer
            ev == <<Ev("check", "")>> \o
                  (IF repoOpen
                   THEN <<EvR("fetch", "origin", IF fetchOk THEN "ok" ELSE "fail")>>
                   ELSE <<>>)
        IN  IF rv \in {None, Empty}
            THEN \* if not remote_version: return False
                 /\ cycle' = [cycle EXCEPT !.check = "false", !.remote = rv]
                 /\ RunReturns(ev)
            ELSE IF rv = Junk /\ ~legacy
            THEN \* version.parse raises InvalidVersion, which only run catches
                 /\ cycle' = [cycle EXCEPT !.check = "raise", !.local = lv, !.remote = rv]
                 /\ RunCatches(ev \o <<Raise("InvalidVersion")>>)
            ELSE IF rv = Junk
            THEN \* an old packaging parses it to a LegacyVersion, below every Version
                 /\ cycle' = [cycle EXCEPT !.check = "false", !.local = lv, !.remote = rv]
                 /\ RunReturns(ev)
            ELSE IF VersionGreater(rv, lv)
            THEN /\ cycle' = [cycle EXCEPT !.check = "true", !.local = lv, !.remote = rv]
                 /\ pc' = "update"
                 /\ trace' = trace \o ev
                 /\ UNCHANGED <<thread, proc, exitStatus>>
            ELSE /\ cycle' = [cycle EXCEPT !.check = "false", !.local = lv, !.remote = rv]
                 /\ RunReturns(ev)
    /\ UNCHANGED <<processName, repoOpen, repo, remote, loadedVer, applied>>

\* -------------------------------------------------------- git operations
\* repo.is_dirty(untracked_files=False): the index or a tracked file differs
\* from HEAD
IsDirty(r) == r.dirty \/ r.conflicted # {} \/ r.theirs # {}

PullOutcomes == {"ok", "conflict", "neterr", "other"}

\* What git can answer to a pull in this state: it stops on a conflict only
\* where local commits touch the same files, and succeeds only where they do
\* not and no rebase is in progress. "neterr" is a network, authentication or
\* timeout failure, "other" an exception that is no GitCommandError.
PullPossible(r, out) ==
    /\ out = "ok" => (r.localChanges = {} /\ r.op = "none")
    /\ out = "conflict" => (r.localChanges # {} /\ r.op = "none")

\* The operations that are given a timeout: fetch(kill_after_timeout=5),
\* pull(TARGET_BRANCH, kill_after_timeout=10, ...), check_call(..., timeout=300).
\* The resolver's origin.pull(current_branch.name) is given none.
HasTimeout(op) == op \in {"fetch", "pull_rebase", "sync"}

\* A remote that never answers: with a timeout the operation fails ("neterr",
\* "timeout", a failed fetch); without one the call never returns ("hang").
MayHang(op, out) == out = "hang" => ~HasTimeout(op)

\* Advance with a fault: the commits arrive, the manifest keeps its version
AdvanceKeepsVersion(r) ==
    [r EXCEPT !.head = IF @ = "base" THEN "remote" ELSE @]

\* the pull brought origin's commits: the working copy's manifest now
\* declares the version the check read from the remote branch
Advance(r) ==
    [r EXCEPT !.ver = IF cycle.remote \in ValidVers THEN cycle.remote ELSE @,
              !.head = IF @ = "base" THEN "remote" ELSE @]

\* origin.pull(TARGET_BRANCH, kill_after_timeout=10, rebase=True)
GitPullRebase(r, out) ==
    IF out = "ok" THEN Advance(r)
    ELSE IF out = "conflict"
    THEN \* the rebase stops: HEAD is detached, the files carry conflict markers
         [r EXCEPT !.op = "rebase", !.detached = TRUE, !.conflicted = r.localChanges]
    ELSE r

\* repo.git.reset("--merge"): the index and the conflicted files go back to
\* HEAD and a merge in progress is dropped; a rebase in progress stays (its
\* state directory is kept and HEAD stays detached).
GitResetMerge(r) ==
    [r EXCEPT !.conflicted = {}, !.theirs = {},
              !.op = IF @ = "merge" THEN "none" ELSE @]

\* origin.pull(current_branch.name): a plain merge of origin's branch b
GitPullMerge(r, out, b) ==
    IF out = "ok" THEN (IF b = TARGET_BRANCH THEN Advance(r) ELSE r)
    ELSE IF out = "conflict"
    THEN [r EXCEPT !.op = "merge", !.conflicted = r.localChanges]
    ELSE r

\* repo.index.diff(None): the files that differ between index and work tree
IndexDiff(r) == r.conflicted

\* the first k files of D, in path order
FirstFiles(D, k) == {f \in D : Cardinality({g \in D : g < f}) < k}

\* repo.git.checkout("--theirs", file_path), for each file of S
GitCheckoutTheirs(r, S) ==
    [r EXCEPT !.theirs = @ \cup S, !.conflicted = @ \ S]

\* repo.index.commit("Resolved merge conflicts automatically")
GitCommit(r) ==
    [r EXCEPT !.head = "synth", !.theirs = {}, !.localChanges = {}]

\* -------------------------------------------------------- attempt_update
\* UpdateDone with a fault: try_update goes on whatever attempt_update returned
UpdateDoneNoReturn(ret, res, ev, r) ==
    /\ cycle' = [cycle EXCEPT !.update = ret, !.resolve = res]
    /\ applied' = (applied \/ ret = "true")
    /\ repo' = r
    /\ pc' = "sync"
    /\ trace' = trace \o ev
    /\ UNCHANGED <<thread, proc, exitStatus>>

\* attempt_update returns ret to try_update: "if not self.attempt_update():
\* return" sends the thread to the sleep, otherwise on to the sync
UpdateDone(ret, res, ev, r) ==
    /\ cycle' = [cycle EXCEPT !.update = ret, !.resolve = res]
    /\ applied' = (applied \/ ret = "true")
    /\ repo' = r
    /\ IF ret = "true"
       THEN /\ pc' = "sync"
            /\ trace' = trace \o ev
            /\ UNCHANGED <<thread, proc, exitStatus>>
       ELSE RunReturns(ev)

\* OuterExcept with a fault: the exception leaves attempt_update
OuterExceptMissing(res, ev, r) ==
    /\ cycle' = [cycle EXCEPT !.update = "raise", !.resolve = res]
    /\ UNCHANGED applied
    /\ repo' = r
    /\ RunCatches(ev \o <<Raise("Exception")>>)

\* except Exception as e: logger.exception(...), then return False
OuterExcept(res, ev, r) == UpdateDone("false", res, ev, r)

\* DirtyGuard with a fault: the pull is tried on a dirty tree as well
DirtyGuardMissing(r) == FALSE

\* if self.repo.is_dirty(untracked_files=False): ... return False
DirtyGuard(r) == IsDirty(r)

AttemptUpdate ==
    /\ Running /\ pc = "update"
    /\ \E dirtyErr \in BOOLEAN, out \in PullOutcomes :
        LET ev0 == <<Ev("update", "")>>
            ev1 == ev0 \o <<Ev("is_dirty", "")>>
            ev2 == ev1 \o <<EvR("pull_rebase", TARGET_BRANCH, out)>>
        IN  IF ~repoOpen
            THEN OuterExcept("none", ev0, repo)   \* self.repo: AttributeError
            ELSE IF dirtyErr
            THEN OuterExcept("none", ev1, repo)
            ELSE IF DirtyGuard(repo)
            THEN UpdateDone("false", "none", ev1, repo)
            ELSE /\ PullPossible(repo, out)
                 /\ IF out = "ok"
                    THEN UpdateDone("true", "none", ev2, GitPullRebase(repo, out))
                    ELSE IF out = "other"
                    THEN OuterExcept("none", ev2, repo)
                    ELSE \* except git.GitCommandError: handle_merge_conflicts()
                         /\ pc' = "resolve"
                         /\ repo' = GitPullRebase(repo, out)
                         /\ trace' = trace \o ev2
                         /\ UNCHANGED <<cycle, applied, thread, proc, exitStatus>>
    /\ UNCHANGED <<processName, repoOpen, remote, loadedVer>>

\* ------------------------------------------------ handle_merge_conflicts
\* return self.handle_merge_conflicts(): its result is attempt_update's
ResolveReturns(ret, ev, r) == UpdateDone(ret, ret, ev, r)

\* an exception that is no GitCommandError leaves handle_merge_conflicts and
\* is caught by attempt_update's outer handler
ResolveRaises(ev, r) == OuterExcept("raise", ev, r)

HandleMergeConflicts ==
    /\ Running /\ pc = "resolve"
    /\ \E resetOk \in BOOLEAN, out \in {"ok", "conflict", "neterr", "hang"},
          failAt \in 0..MaxFiles, commitOut \in {"ok", "giterr", "other"} :
        LET r1 == GitResetMerge(repo)
            ev1 == <<Ev("resolve", ""), Ev("reset", "--merge")>>
            ev2 == ev1 \o <<EvR("pull_merge", r1.branch, out)>>
            r2 == GitPullMerge(r1, out, r1.branch)
            D == IndexDiff(r2)
            k == IF failAt \in 1..Cardinality(D) THEN failAt - 1 ELSE Cardinality(D)
            r3 == GitCheckoutTheirs(r2, FirstFiles(D, k))
            n == IF failAt \in 1..Cardinality(D) THEN failAt ELSE Cardinality(D)
            ev3 == ev2 \o [i \in 1..n |-> Ev("checkout", "--theirs")]
            ev4 == ev3 \o <<Ev("commit", "")>>
        IN  IF ~resetOk
            THEN ResolveReturns("false", ev1, repo)
            ELSE IF r1.detached
            THEN \* self.repo.active_branch: TypeError on a detached HEAD
                 ResolveRaises(ev1, r1)
            ELSE /\ PullPossible(r1, out)
                 /\ MayHang("pull_merge", out)
                 /\ IF out = "hang"
                    THEN \* the thread blocks in the pull for good
                         /\ pc' = "hung"
                         /\ repo' = r1
                         /\ trace' = trace \o ev2
                         /\ UNCHANGED <<cycle, applied, thread, proc, exitStatus>>
                    ELSE IF out # "ok"
                    THEN ResolveReturns("false", ev2, r2)
                    ELSE IF failAt \in 1..Cardinality(D)
                    THEN ResolveReturns("false", ev3, r3)
                    ELSE IF commitOut = "ok"
                    THEN ResolveReturns("true", ev4, GitCommit(r3))
                    ELSE IF commitOut = "giterr"
                    THEN ResolveReturns("false", ev4, r3)
                    ELSE ResolveRaises(ev4, r3)
    /\ UNCHANGED <<processName, repoOpen, remote, loadedVer>>

\* ------------------------------------------------ attempt_package_update
SyncOutcomes == {"ok", "error", "missing", "timeout"}

\* PackageUpdateExcept with a fault: the failure leaves attempt_package_update
PackageUpdateExceptMissing(out) ==
    IF out = "ok"
    THEN /\ pc' = "restart"
         /\ trace' = trace \o <<Ev("sync", out)>>
         /\ UNCHANGED <<thread, proc, exitStatus>>
    ELSE RunCatches(<<Ev("sync", out), Raise("CalledProcessError")>>)

\* subprocess.check_call([...], timeout=300) inside try / except Exception:
\* CalledProcessError, FileNotFoundError and TimeoutExpired are logged
PackageUpdateExcept(out) ==
    /\ pc' = "restart"
    /\ trace' = trace \o <<Ev("sync", out)>>
    /\ UNCHANGED <<thread, proc, exitStatus>>

AttemptPackageUpdate ==
    /\ Running /\ pc = "sync"
    /\ \E out \in SyncOutcomes : PackageUpdateExcept(out)
    /\ UNCHANGED <<processName, repoOpen, repo, remote, loadedVer, applied, cycle>>

\* ----------------------------------------------------------- restart_app
\* ManagedBranch with a fault: without a process identity the managed branch
\* is skipped and the process re-executes itself
ManagedBranchNeedsName(pm2Home, name) == pm2Home /\ name # NoName

\* if "PM2_HOME" in os.environ: ... else: os.execv(...)
ManagedBranch(pm2Home, name) == pm2Home

\* The "restart" event records the marker: "pm2" when PM2_HOME is set,
\* "execv" when it is not.
RestartApp ==
    /\ Running /\ pc = "restart"
    /\ \E pm2Home \in BOOLEAN, ok \in BOOLEAN :
        LET called == Ev("restart", IF pm2Home THEN "pm2" ELSE "execv") IN
        IF ManagedBranch(pm2Home, processName)
        THEN IF processName = NoName
             THEN \* if not self.process_name: ... sys.exit(1)
                  SysExit(<<called>>)
             ELSE LET ev == <<called, Ev("pm2_restart", processName)>>
                  IN  IF ok
                      THEN /\ pc' = "grace"
                           /\ trace' = trace \o ev
                           /\ UNCHANGED <<thread, proc, exitStatus>>
                      ELSE RunCatches(ev \o <<Raise("CalledProcessError")>>)
        ELSE LET ev == <<called, Ev("execv", "")>>
             IN  IF ok
                 THEN \* the process image is replaced: nothing of it runs on
                      /\ pc' = "done"
                      /\ thread' = "dead"
                      /\ proc' = "replaced"
                      /\ trace' = trace \o ev
                      /\ UNCHANGED exitStatus
                 ELSE RunCatches(ev \o <<Raise("OSError")>>)
    /\ UNCHANGED <<processName, repoOpen, repo, remote, loadedVer, applied, cycle>>

\* time.sleep(5); sys.exit(1)
GraceExit ==
    /\ Running /\ pc = "grace"
    /\ SysExit(<<Ev("grace_sleep", "5")>>)
    /\ UNCHANGED <<processName, repoOpen, repo, remote, loadedVer, applied, cycle>>

\* DaemonThread with a fault: the flag is not set, and the interpreter joins
\* the thread before it exits
NonDaemonThread == FALSE

\* self.daemon = True
DaemonThread == TRUE

\* The host's main workload ends. self.daemon = True: the interpreter does
\* not wait for the updater thread, wherever it is; the thread and its
\* cycle end with the process.
\* pc keeps the place where the thread was when the process ended.
HostExit ==
    /\ proc = "running"
    /\ DaemonThread \/ thread = "dead"
    /\ proc' = "exited"
    /\ exitStatus' = "0"
    /\ thread' = "dead"
    /\ cycle' = NewCycle
    /\ trace' = <<>>
    /\ UNCHANGED <<pc, processName, repoOpen, repo, remote, loadedVer, applied>>

Next ==
    \/ CheckVersionUpdated
    \/ AttemptUpdate
    \/ HandleMergeConflicts
    \/ AttemptPackageUpdate
    \/ RestartApp
    \/ GraceExit
    \/ Sleep
    \/ HostExit

Spec == Init /\ [][Next]_vars

\* ================================================================ claims
Ops(t) == {t[i].op : i \in 1..Len(t)}
\* the operations that change the working copy, its index or HEAD
GitWrites == {"pull_rebase", "pull_merge", "reset", "checkout", "commit"}

\* C1: a failure raised out of any component of a cycle is caught by run's
\* handler and logged; the thread stays alive, sleeps the interval and
\* starts another cycle.
C1_RaisedIsCaught ==
    Has("raise") =>
        /\ trace[Len(trace)].op = "caught"
        /\ trace[Len(trace) - 1].op = "raise"
        /\ thread = "alive" /\ proc = "running" /\ pc = "sleep"

C1_FailureCaughtLoopContinues ==
    /\ []C1_RaisedIsCaught
    /\ [][(pc = "sleep" /\ Has("raise") /\ proc' = "running")
            => (pc' = "check" /\ thread' = "alive")]_vars

\* the restart step raised, the handler caught it, the thread is in the sleep
C1_Witness ==
    /\ Has("restart") /\ Has("raise") /\ Has("caught")
    /\ pc = "sleep" /\ thread = "alive"

\* C2: in a cycle the calls come in the order check_version_updated,
\* attempt_update, attempt_package_update, restart_app, each at most once;
\* attempt_update only after the check returned true, the sync and the
\* restart only after attempt_update returned true.
C2_StepOrder ==
    /\ \A op \in {"check", "update", "sync", "restart"} : Count(op) <= 1
    /\ Has("update") => (cycle.check = "true" /\ Pos("check") < Pos("update"))
    /\ Has("sync") =>
          (cycle.update = "true" /\ Has("update") /\ Pos("update") < Pos("sync"))
    /\ Has("restart") => (Has("sync") /\ Pos("sync") < Pos("restart"))
    /\ cycle.check # "true" => (~Has("update") /\ ~Has("restart"))
    /\ cycle.update # "true" => (~Has("sync") /\ ~Has("restart"))

\* a cycle that went through all four calls
C2_Witness ==
    /\ Has("check") /\ Has("update") /\ Has("sync") /\ Has("restart")
    /\ cycle.check = "true" /\ cycle.update = "true"

\* C3: attempt_update on a dirty working tree returns False and leaves the
\* working copy as it was: no pull, reset, checkout or commit is issued, and
\* the cycle ends in the sleep without sync or restart.
C3_DirtyTreeUntouched ==
    [][(pc = "update" /\ repoOpen /\ IsDirty(repo) /\ proc' = "running")
        => /\ repo' = repo
           /\ cycle'.update = "false"
           /\ pc' = "sleep"
           /\ Ops(trace') \cap (GitWrites \cup {"sync", "restart"}) = {}]_vars

\* the dirty check answered "dirty" and attempt_update returned False
C3_Witness ==
    /\ repo.dirty /\ Has("is_dirty") /\ cycle.update = "false"
    /\ pc = "sleep" /\ ~Has("raise")

\* (major, minor, patch) precedence, written out
LexGreater(b, a) ==
    \/ b[1] > a[1]
    \/ b[1] = a[1] /\ b[2] > a[2]
    \/ b[1] = a[1] /\ b[2] = a[2] /\ b[3] > a[3]

\* C4: for a valid local version a and a valid remote version b,
\* check_version_updated returns True exactly when b is strictly greater
\* than a in (major, minor, patch) order.
C4_TrueIffRemoteGreater ==
    (cycle.check # "none" /\ cycle.local \in ValidVers /\ cycle.remote \in ValidVers)
        => /\ cycle.check \in {"true", "false"}
           /\ cycle.check = "true" <=> LexGreater(cycle.remote.rel, cycle.local.rel)

\* the check returned True for a remote with a higher major and a lower patch
C4_Witness ==
    /\ cycle.check = "true"
    /\ cycle.local \in ValidVers /\ cycle.remote \in ValidVers
    /\ cycle.remote.rel[3] < cycle.local.rel[3]

\* the first line of manifest m that declares the version, 0 if there is none
DeclLine(m) ==
    IF \E i \in 1..Len(m) : m[i].name = "__version__"
    THEN CHOOSE i \in 1..Len(m) :
            /\ m[i].name = "__version__"
            /\ \A j \in 1..(i - 1) : m[j].name # "__version__"
    ELSE 0

\* the remote manifest declares no version, or an empty or unparsable one
RemoteUnusable ==
    \/ DeclLine(remote) = 0
    \/ LET l == remote[DeclLine(remote)]
       IN  ~l.eq \/ l.quote # "double" \/ l.val \in {Empty, Junk}

FetchFailed(t) == \E i \in 1..Len(t) : t[i].op = "fetch" /\ t[i].res = "fail"

\* C5: when the fetch fails or the remote manifest declares no version, or
\* an empty or unparsable one, the check does not return True, the working
\* copy is unchanged, nothing but the check is done in the cycle, and the
\* cycle ends in the sleep.
C5_UnusableRemoteNoAction ==
    [][(pc = "check" /\ proc' = "running" /\ (FetchFailed(trace') \/ RemoteUnusable))
        => /\ cycle'.check # "true"
           /\ repo' = repo
           /\ pc' = "sleep" /\ thread' = "alive"
           /\ Ops(trace') \subseteq {"check", "fetch", "raise", "caught"}]_vars

\* the fetch had failed and the cycle ended in the sleep
C5_Witness ==
    /\ FetchFailed(trace) /\ pc = "sleep" /\ cycle.check = "false"

\* C6: restart_app under the process-manager marker without a process
\* identity: the process exits with a non-zero status, and no restart
\* command and no re-exec is issued.
C6_NoIdentityProcessExits ==
    (Has("restart") /\ trace[Pos("restart")].arg = "pm2" /\ processName = NoName
        /\ pc = "done")
        => /\ proc = "exited" /\ exitStatus \notin {"none", "0"}
           /\ ~Has("pm2_restart") /\ ~Has("execv")

\* C7: restart_app under the marker with a process identity: the restart
\* command is issued once, then the grace pause, then the process exits with
\* a non-zero status.
C7_ManagedRestartThenExit ==
    (Has("pm2_restart") /\ pc = "done")
        => /\ Count("pm2_restart") = 1
           /\ trace[Pos("pm2_restart")].arg = processName
           /\ Has("grace_sleep") /\ Pos("pm2_restart") < Pos("grace_sleep")
           /\ Has("sys_exit") /\ Pos("grace_sleep") < Pos("sys_exit")
           /\ proc = "exited" /\ exitStatus \notin {"none", "0"}

\* C8: whatever the sync command does (success, error status, missing
\* executable, timeout), attempt_package_update returns normally and
\* restart_app is the next call of the cycle.
C8_SyncNeverFatal ==
    Has("sync") =>
        /\ trace[Pos("sync")].arg \in SyncOutcomes
        /\ IF Pos("sync") = Len(trace)
           THEN pc = "restart" /\ thread = "alive"
           ELSE trace[Pos("sync") + 1].op = "restart"

\* the sync timed out and restart_app was called
C8_Witness ==
    /\ Has("sync") /\ trace[Pos("sync")].arg = "timeout" /\ Has("restart")

PullSucceeded == \E i \in 1..Len(trace) : trace[i].op = "pull_rebase" /\ trace[i].res = "ok"

\* C9: attempt_update never lets an exception out, and once it has returned
\* its result is True exactly when the rebase pull succeeded or
\* handle_merge_conflicts returned True, and False otherwise.
C9_FailsClosed ==
    /\ cycle.update # "raise"
    /\ (Has("update") /\ Has("raise")) => Has("restart")
    /\ (Has("update") /\ pc \notin {"update", "resolve", "hung"})
          => /\ cycle.update \in {"true", "false"}
             /\ cycle.update = "true" <=> (PullSucceeded \/ cycle.resolve = "true")

\* the resolver raised, and attempt_update returned False
C9_Witness ==
    /\ cycle.resolve = "raise" /\ cycle.update = "false" /\ pc = "sleep"

\* C10: when handle_merge_conflicts returns False, no merge or rebase is in
\* progress, no file is left conflicted or overwritten, and the cycle makes
\* no further pull or resolution attempt.
C10_NoHalfMergedState ==
    cycle.resolve = "false"
        => /\ repo.op = "none"
           /\ repo.conflicted = {} /\ repo.theirs = {}
           /\ Count("resolve") = 1 /\ Count("pull_rebase") = 1
           /\ Count("pull_merge") <= 1
           /\ pc = "sleep"

RebaseConflicted ==
    \E i \in 1..Len(trace) : trace[i].op = "pull_rebase" /\ trace[i].res = "conflict"

\* C11: when the rebase pull stopped on a conflict and handle_merge_conflicts
\* has run, no file is conflicted any more, exactly one synthetic commit was
\* made and is HEAD, and the files that were in conflict hold the remote's
\* content (none keeps the local commits' changes).
C11_ConflictResolvedToRemote ==
    (RebaseConflicted /\ cycle.resolve # "none")
        => /\ cycle.resolve = "true"
           /\ repo.conflicted = {} /\ repo.localChanges = {}
           /\ Count("commit") = 1 /\ repo.head = "synth"
           /\ repo.op = "none"

\* C12 as stated: after a successful pull the working copy declares the
\* remote's version, and from then on no check against the same remote
\* warrants an update: the same version is not applied twice.
C12_NeverAppliedTwice ==
    /\ (PullSucceeded /\ cycle.update # "none")
          => (cycle.update = "true" /\ repo.ver = cycle.remote)
    /\ ~(pc = "update" /\ applied /\ repo.head = "remote" /\ repo.ver = cycle.remote)

\* C12, amended: after a successful pull attempt_update returns True and the
\* working copy declares the remote's version; a later check against the
\* same remote that compares the freshly reloaded local version returns
\* False and the cycle ends in the sleep. (When the reload fails the check
\* compares the version imported at process start instead.)
C12_FreshCheckAfterPull ==
    /\ [](  (PullSucceeded /\ cycle.update # "none")
              => (cycle.update = "true" /\ repo.ver = cycle.remote))
    /\ [][(pc = "check" /\ applied /\ repo.head = "remote" /\ proc' = "running"
             /\ cycle'.remote = repo.ver /\ cycle'.local = repo.ver)
            => (cycle'.check = "false" /\ pc' = "sleep" /\ repo' = repo)]_vars

\* a cycle after the pull: the check compared the reloaded version with the
\* remote's, which it equals, and returned False
C12_Witness ==
    /\ applied /\ repo.head = "remote" /\ repo.ver # loadedVer
    /\ cycle.check = "false" /\ cycle.local = repo.ver /\ cycle.remote = repo.ver
    /\ pc = "sleep"

\* C13: the updater never keeps the host process from exiting: wherever the
\* thread is (in a cycle, in the sleep, in the grace pause, blocked in a
\* pull), the end of the host's main workload ends the process.
C13_HostExitNeverBlocked == proc = "running" => ENABLED HostExit

\* the process ended while the updater was in the grace pause
C13_Witness == proc = "exited" /\ pc = "grace" /\ thread = "dead"

\* C14: handle_merge_conflicts is invoked only after the rebase pull failed
\* on a conflict; after any other failure of the pull there is no reset, no
\* second pull, no checkout and no commit.
C14_ResolverOnlyOnConflict ==
    (~RebaseConflicted)
        => (~Has("resolve") /\ pc # "resolve"
            /\ Ops(trace) \cap {"reset", "pull_merge", "checkout", "commit"} = {})

NetworkOps == {"fetch", "pull_rebase", "pull_merge", "sync"}

\* C15: every network or subprocess operation of a cycle before the restart
\* carries a timeout, and no cycle hangs in one of them.
C15_EveryOperationTimesOut ==
    /\ \A i \in 1..Len(trace) :
          trace[i].op \in NetworkOps => (HasTimeout(trace[i].op) /\ trace[i].res # "hang")
    /\ pc # "hung"

\* C16: every pull of a cycle, the rebase pull and the resolver's merge pull,
\* pulls the target branch.
C16_PullsTargetBranchOnly ==
    \A i \in 1..Len(trace) :
        trace[i].op \in {"pull_rebase", "pull_merge"} => trace[i].arg = TARGET_BRANCH

\* C17: restart_app takes one branch, chosen by the marker alone. With the
\* marker it never re-executes the process image; without it, it calls
\* execv and neither issues a manager restart command nor calls sys.exit,
\* whether or not a process identity is configured.
C17_BranchByMarkerAlone ==
    Has("restart") =>
        /\ Count("restart") = 1
        /\ trace[Pos("restart")].arg = "pm2"
              => (~Has("execv") /\ proc # "replaced"
                  /\ (Has("pm2_restart") \/ Has("sys_exit")))
        /\ trace[Pos("restart")].arg = "execv"
              => (Count("execv") = 1 /\ ~Has("pm2_restart")
                  /\ ~Has("sys_exit") /\ ~Has("grace_sleep"))

\* no marker, a process identity configured: the image was replaced
C17_Witness ==
    /\ Has("restart") /\ trace[Pos("restart")].arg = "execv"
    /\ processName # NoName /\ proc = "replaced"

\* C18: a cycle begins only from the interval sleep, after the cycle before
\* has ended, and begins with nothing of that cycle pending; from the sleep
\* the thread goes nowhere but to the next cycle.
C18_CyclesSeparatedBySleep ==
    [][/\ (pc' = "check" /\ pc # "check")
            => (pc = "sleep" /\ trace' = <<>> /\ cycle' = NewCycle)
       /\ (pc = "sleep" /\ pc' # "sleep" /\ proc' = "running") => pc' = "check"
       /\ (pc = "check" /\ pc' # "check") => Len(trace) = 0]_vars

\* a later cycle is at its start: an earlier one had pulled
C18_Witness == pc = "check" /\ applied /\ trace = <<>> /\ thread = "alive"

\* C19 as stated: a cycle in which attempt_update returned True ends with the
\* process image replaced or the process exited, and never in the sleep.
C19_AppliedUpdateReplacesProcess ==
    cycle.update = "true"
        => \/ pc \in {"sync", "restart", "grace"}
           \/ pc = "done" /\ proc \in {"replaced", "exited"}

\* C19, amended: a cycle in which attempt_update returned True calls
\* restart_app; it reaches the sleep only when the restart command or the
\* execv raised (caught by run), and otherwise ends with the process image
\* replaced or with the updater thread ended by sys.exit(1).
C19_AppliedUpdateCallsRestart ==
    cycle.update = "true"
        => \/ pc \in {"sync", "restart", "grace"} /\ thread = "alive"
           \/ /\ pc = "sleep" /\ Has("restart")
              /\ trace[Len(trace)].op = "caught"
              /\ trace[Len(trace) - 1].op = "raise"
              /\ trace[Len(trace) - 2].op \in {"pm2_restart", "execv"}
           \/ /\ pc = "done" /\ Has("restart")
              /\ proc = "replaced" \/ (Has("sys_exit") /\ thread = "dead")

\* the update was applied, the restart command failed, the thread sleeps
C19_Witness ==
    /\ cycle.update = "true" /\ pc = "sleep" /\ Has("pm2_restart") /\ Has("caught")

\* C20: when __init__ could not open the repository, every check returns
\* False, no pull, sync or restart is ever made, and the thread stays alive,
\* going from check to sleep and back.
C20_NoRepoState ==
    (~repoOpen) =>
        /\ cycle.check \in {"none", "false"}
        /\ Ops(trace) \subseteq {"check"}
        /\ pc \in {"check", "sleep"}
        /\ proc = "running" => thread = "alive"
        /\ repo.head = "base" /\ ~applied

C20_NoRepoLoopsForever ==
    /\ []C20_NoRepoState
    /\ [][(~repoOpen /\ proc' = "running")
            => \/ pc = "check" /\ pc' = "sleep"
               \/ pc = "sleep" /\ pc' = "check"]_vars

\* without a repository the check returned False and the thread sleeps
C20_Witness ==
    /\ ~repoOpen /\ pc = "sleep" /\ cycle.check = "false" /\ thread = "alive"
====
